---- MODULE Spec2Model ----
(***************************************************************************)
(* A model of digest.go: the DigestAuth nonce cache (da.clients), the      *)
(* RWMutex that guards it, and the methods that read and write it: Purge, *)
(* RequireAuth, CheckAuth, the closure returned by Wrap, and NewContext.   *)
(*                                                                         *)
(* Every goroutine serving a call is a process p with a program counter    *)
(* pc[p]; an action is one step of one process between two points where    *)
(* another goroutine can observe or change the shared state (the mutex,    *)
(* the map, a digest_client's fields).                                     *)
(*                                                                         *)
(* Strings that the code only compares are TLA+ strings.  Strings that     *)
(* the code parses (the nc parameter, the uri parameter) are sequences of  *)
(* characters.  A digest function is modelled as a collision-free          *)
(* constructor: H(alg, x) is the tuple <<"H", alg, x>>.                     *)
(***************************************************************************)
EXTENDS Integers, Sequences, FiniteSets, TLC

\* ------------------------------------------------------------- bounds
NumProcs     == 2   \* goroutines serving calls concurrently (Spec)
MaxNonces    == 4   \* nonces RandomKey hands out in one behaviour
MaxTime      == 1   \* largest value time.Now() returns
MaxCacheSize == 1   \* ClientCacheSize is drawn from 0..MaxCacheSize
MaxTolerance == 2   \* ClientCacheTolerance is drawn from 0..MaxTolerance
MaxAnswered  == 1   \* requests name the nonces 1..MaxAnswered
MaxPurge     == 3   \* a direct call of Purge is given a count in -1..MaxPurge

Procs  == 1..NumProcs
Nonces == 1..MaxNonces
None   == 0         \* no process

\* ------------------------------------------------- the configuration
Realm  == "realm"
Opaque == "opaque"          \* da.Opaque, a RandomKey() fixed at construction
Method == "GET"             \* r.Method
Cnonce == "cnonce"          \* auth["cnonce"]
Absent == "<absent>"        \* a key the Authorization header does not carry

VARIABLES
  ClientCacheSize,      \* da.ClientCacheSize
  ClientCacheTolerance, \* da.ClientCacheTolerance
  IgnoreNonceCount,     \* da.IgnoreNonceCount
  PlainTextSecrets,     \* da.PlainTextSecrets
  clients,              \* da.clients: nonce -> [nc, last_seen]
  mutex,                \* da.mutex: [w, held, readers]
  now,                  \* the last value time.Now().UnixNano() returned
  keys,                 \* how many nonces RandomKey has returned
  pc,                   \* pc[p]: where process p is in its call
  entry,                \* entry[p]: the function p's call entered
  req,                  \* req[p]: the request CheckAuth is looking at
  ret,                  \* ret[p]: what CheckAuth returns: [username, authinfo]
  count,                \* count[p]: the argument of the Purge p is in
  accepted,             \* history: nonce -> the nc CheckAuth accepted last, -1 if none
  issued,               \* history: issued[p]: the nonces p's call has registered
  written               \* history: written[p]: p's CheckAuth has changed da.clients

config == <<ClientCacheSize, ClientCacheTolerance, IgnoreNonceCount, PlainTextSecrets>>
vars   == <<ClientCacheSize, ClientCacheTolerance, IgnoreNonceCount, PlainTextSecrets,
            clients, mutex, now, keys, pc, entry, req, ret, count, accepted, issued,
            written>>

\* ------------------------------------------------------ pure helpers

\* A character of the nc parameter is a number: a hex digit is its value
\* 0..15, BadDigit is a character that is no hex digit.  A character of a uri
\* is a one-letter string.
BadDigit  == 15 + 1

RECURSIVE HexValue(_)
HexValue(s) ==
  IF s = <<>> THEN 0 ELSE HexValue(SubSeq(s, 1, Len(s) - 1)) * 16 + s[Len(s)]

\* strconv.ParseUint(s, 16, 64): an error for the empty string and for a
\* string with a character that is no hex digit, the value otherwise.
ParseUint(s) ==
  IF s = <<>> \/ \E i \in 1..Len(s) : s[i] \notin 0..15
    THEN [err |-> TRUE, val |-> 0]
    ELSE [err |-> FALSE, val |-> HexValue(s)]

\* strings.HasPrefix(s, prefix)
HasPrefix(s, prefix) ==
  Len(prefix) <= Len(s) /\ SubSeq(s, 1, Len(prefix)) = prefix

RECURSIVE Before(_, _)
\* s up to its first occurrence of character c (all of s without one)
Before(s, c) ==
  IF s = <<>> \/ s[1] = c THEN <<>> ELSE <<s[1]>> \o Before(Tail(s), c)

\* url.Parse(uri) for a uri with no scheme and no host: an error for an invalid
\* percent-escape, else the path is the uri up to its query.
UrlParse(uri) ==
  IF \E i \in 1..Len(uri) : uri[i] = "%"
    THEN [err |-> TRUE, Path |-> <<>>]
    ELSE [err |-> FALSE, Path |-> Before(uri, "?")]

\* strings.ToUpper on the algorithm names of the model
ToUpper(s) == IF s = "md5" THEN "MD5" ELSE s

\* the registry `algorithms`: the names with a digest function
algorithms == {"MD5"}

\* the digest function of algorithm alg, applied to the fields x joined by ":"
H(alg, x) == <<"H", alg, x>>

\* a plain string where a digest may stand
Str(s) == <<"S", s>>

\* da.Secrets(username, realm): the stored secret, "" for an unknown user
Secrets(username, realm) ==
  IF username = "alice" /\ realm = Realm THEN Str("secret-of-alice") ELSE Str("")


\* ---------------------------------------------------- the request

\* auth["algorithm"] after the default of lines 151-153
Algorithm(r) == IF r.algorithm = Absent THEN "MD5" ELSE r.algorithm

\* lines 184-187: HA1 from the secret provider, rehashed for plain text secrets
HA1(r, plain) ==
  IF plain
    THEN H(ToUpper(Algorithm(r)), <<Str(r.username), Realm, Secrets(r.username, Realm)>>)
    ELSE Secrets(r.username, Realm)

\* line 188
HA2(r) == H(ToUpper(Algorithm(r)), <<Method, r.uri>>)

\* line 189: the response digest the server expects of request r
KD(r, plain) ==
  H(ToUpper(Algorithm(r)), <<HA1(r, plain), r.nonce, r.nc, r.cnonce, r.qop, HA2(r)>>)

\* lines 213-216: the Authentication-Info value
AuthInfo(r, plain) ==
  <<"auth",
    H(ToUpper(Algorithm(r)),
      <<HA1(r, plain), r.nonce, r.nc, r.cnonce, r.qop,
        H(ToUpper(Algorithm(r)), <<"", r.uri>>)>>),
    r.cnonce, r.nc>>

Nil      == <<>>                                   \* authinfo = nil
Rejected == [username |-> "", authinfo |-> Nil]    \* return "", nil
NoReq    == [scheme |-> "none"]
NoRet    == [username |-> "-", authinfo |-> Nil]

\* UriMatches without the prefix rule of lines 172-181
UriMatchesExact(r) == r.RequestURI = r.uri

\* lines 164-182: the uri parameter is the request URI, or parses to a path that
\* is a prefix of the request's path
UriMatches(r) ==
  \/ r.RequestURI = r.uri
  \/ LET u == UrlParse(r.uri) IN
       /\ ~u.err
       /\ ~r.URLnil
       /\ ~(Len(u.Path) > Len(r.Path))
       /\ HasPrefix(r.Path, u.Path)

\* HeaderChecks without the qop of line 154
HeaderChecksNoQop(r) ==
  /\ r.scheme = "Digest"
  /\ Opaque = r.opaque
  /\ ToUpper(Algorithm(r)) \in algorithms
  /\ UriMatches(r)

\* lines 138-182: the checks before the secret is looked up
HeaderChecks(r) ==
  /\ r.scheme = "Digest"                         \* DigestAuthParams, lines 118-125
  /\ Opaque = r.opaque /\ r.qop = "auth"          \* line 154
  /\ ToUpper(Algorithm(r)) \in algorithms         \* lines 158-161
  /\ UriMatches(r)

\* CryptoChecks without the comparison of line 191
CryptoChecksNoCompare(r, plain) == ~ParseUint(r.nc).err

\* lines 184-201: the digest comparison, then the nc parameter parses
CryptoChecks(r, plain) ==
  /\ KD(r, plain) = r.response                   \* line 191
  /\ ~ParseUint(r.nc).err                        \* lines 198-201

\* the replay check without IgnoreNonceCount
ReplayedDespiteIgnore(stored, nc, ignore) == stored # 0 /\ stored >= nc

\* the replay check one off: the counter's successor is refused as well
ReplayedOffByOne(stored, nc, ignore) == stored # 0 /\ stored + 1 >= nc /\ ~ignore

\* line 206: the replay check on the stored counter
Replayed(stored, nc, ignore) == stored # 0 /\ stored >= nc /\ ~ignore


\* ------------------------------------------------ the inputs: requests

\* the nc parameters clients send: "", "0", "1", "2", "3", "02", "g"
NcStrings == {<<>>, <<0>>, <<1>>, <<2>>, <<3>>, <<0, 2>>, <<BadDigit>>}

Usernames == {"alice", ""}

\* the nonces requests name: the first ones issued, before and after they are
\* issued and after they are purged
Answered == 1..MaxAnswered

\* the request line of every request: GET /a/b
Target == <<"/", "a", "/", "b">>

\* the uri parameters clients send: "/a/b", "/a", "/b", "/a/b/a", "/a?b", "/a%"
Uris == {Target, <<"/", "a">>, <<"/", "b">>, <<"/", "a", "/", "b", "/", "a">>,
         <<"/", "a", "?", "b">>, <<"/", "a", "%">>}

\* A request with every parameter as the server asks for it: a client that
\* knows the secret of `username` computes `response` as RFC 2617 says
\* ("valid"); one that does not guesses the secret ("forged"); "altered" is a
\* valid response whose nc parameter was changed after it was computed.
Signed(r, kind, plain) ==
  [r EXCEPT !.response =
     CASE kind = "valid"   -> KD(r, plain)
       [] kind = "forged"  -> H(ToUpper(Algorithm(r)),
                                <<Str("guess"), r.nonce, r.nc, r.cnonce, r.qop, HA2(r)>>)
       [] kind = "altered" -> KD([r EXCEPT !.nc = r.nc \o <<0>>], plain)]

Unsigned(username, nonce, nc) ==
  [scheme |-> "Digest", opaque |-> Opaque, qop |-> "auth", algorithm |-> "MD5",
   uri |-> Target, RequestURI |-> Target, Path |-> Target, URLnil |-> FALSE,
   username |-> username, nonce |-> nonce, nc |-> nc, cnonce |-> Cnonce,
   response |-> Nil]

ResponseKinds == {"valid", "forged", "altered"}

\* requests that differ in what the digest comparison and the session check read
SessionRequests(plain) ==
  {Signed(Unsigned(u, n, c), k, plain) :
     u \in Usernames, n \in Answered, c \in NcStrings, k \in ResponseKinds}

\* alice's first request on a nonce, with a valid response, changed in one
\* group of the parameters that lines 138-182 read
HeaderRequests(plain) ==
  LET Bases == {Unsigned("alice", n, <<1>>) : n \in Answered} IN
    {Signed(x, "valid", plain) : x \in
         {[b EXCEPT !.scheme = "Basic"] : b \in Bases}
    \cup {[b EXCEPT !.opaque = o, !.qop = q] :
            b \in Bases, o \in {Opaque, "stale"}, q \in {"auth", "auth-int", ""}}
    \cup {[b EXCEPT !.algorithm = a] :
            b \in Bases, a \in {"md5", Absent, "SHA-512-256"}}
    \cup {[b EXCEPT !.uri = u, !.URLnil = z] :
            b \in Bases, u \in Uris, z \in BOOLEAN}}

\* what a sequence of calls is given
Requests(plain) == SessionRequests(plain) \cup HeaderRequests(plain)

\* what concurrent calls are given: alice's requests with a valid response
RacingRequests(plain) ==
  {Signed(Unsigned("alice", n, c), "valid", plain) :
     n \in Answered, c \in {<<1>>, <<2>>}}

\* ------------------------------------------------------- the state

Min(a, b) == IF a < b THEN a ELSE b

\* time.Now().UnixNano(): the clock never runs backwards
Clock == now..Min(now + 1, MaxTime)

Size == Cardinality(DOMAIN clients)                \* len(da.clients)

\* calls in flight that will ask RandomKey for a nonce, or may
NeedsKey(p) ==
  \/ pc[p] \in {"ra_rlock", "ra_size", "ra_lock", "ra_wait", "ra_insert",
                "nc_lock", "nc_wait", "nc_size", "nc_insert"}
  \/ entry[p] # "Purge" /\ pc[p] \in {"pg_lock", "pg_wait", "pg_body"}
  \/ entry[p] \in {"Wrap", "NewContext"}
       /\ pc[p] \in {"ca_rlock", "ca_secrets", "ca_lookup",
                     "ca_set_nc", "ca_set_seen", "ca_return"}

KeysLeft == MaxNonces - keys - Cardinality({p \in Procs : NeedsKey(p)})

\* sync.RWMutex.  w is the writer that has announced itself in Lock (pending
\* or holding, 0 for none): from then on RLock blocks.  held: the writer has
\* waited out the readers and holds the lock.  readers: who holds a read lock.
RLock(p)    == /\ mutex.w = None
               /\ mutex' = [mutex EXCEPT !.readers = @ \cup {p}]
RUnlock(p)  == mutex' = [mutex EXCEPT !.readers = @ \ {p}]
LockAnnounce(p) == /\ mutex.w = None
                   /\ mutex' = [mutex EXCEPT !.w = p]
LockAcquire(p)  == /\ mutex.w = p /\ ~mutex.held /\ mutex.readers = {}
                   /\ mutex' = [mutex EXCEPT !.held = TRUE]
Unlock(p)   == mutex' = [mutex EXCEPT !.w = None, !.held = FALSE]

Configs ==
  [size : 0..MaxCacheSize, tolerance : 0..MaxTolerance,
   ignore : BOOLEAN, plain : BOOLEAN]

\* NewDigestAuthenticator, then the caller's setting of the exported fields
Init ==
  /\ \E c \in Configs :
       /\ ClientCacheSize = c.size
       /\ ClientCacheTolerance = c.tolerance
       /\ IgnoreNonceCount = c.ignore
       /\ PlainTextSecrets = c.plain
  /\ clients = <<>>
  /\ mutex = [w |-> None, held |-> FALSE, readers |-> {}]
  /\ now = 0
  /\ keys = 0
  /\ pc = [p \in Procs |-> "idle"]
  /\ entry = [p \in Procs |-> "none"]
  /\ req = [p \in Procs |-> NoReq]
  /\ ret = [p \in Procs |-> NoRet]
  /\ accepted = <<>>
  /\ issued = [p \in Procs |-> {}]
  /\ count = [p \in Procs |-> 0]
  /\ written = [p \in Procs |-> FALSE]

\* ------------------------------------------------------ the actions

\* the counts Purge is called with from outside the package
PurgeCounts == -1..MaxPurge

\* what the HTTP server calls, one goroutine per request: the handler of Wrap,
\* or CheckAuth and RequireAuth from a handler of the application
Handlers == {"Wrap", "CheckAuth", "RequireAuth"}

\* the exported methods that work on da.clients
Methods == Handlers \cup {"NewContext", "Purge"}

\* a goroutine enters the handler Wrap returned, or calls one of the exported
\* methods CheckAuth, RequireAuth, NewContext, Purge(c): one of E
Call(p, E) ==
  /\ pc[p] = "idle"
  /\ \E e \in E :
       /\ e \in {"Wrap", "RequireAuth", "NewContext"} => KeysLeft > 0
       /\ entry' = [entry EXCEPT ![p] = e]
       /\ pc' = [pc EXCEPT ![p] = CASE e = "RequireAuth" -> "ra_rlock"
                                    [] e = "NewContext"  -> "nc_lock"
                                    [] e = "Purge"       -> "pg_lock"
                                    [] OTHER             -> "ca_rlock"]
       /\ \E c \in IF e = "Purge" THEN PurgeCounts ELSE {0} :
            count' = [count EXCEPT ![p] = c]
  /\ UNCHANGED <<config, clients, mutex, now, keys, req, ret, accepted, issued, written>>

\* CheckAuth, lines 134-182: RLock, read the Authorization header (one of the
\* requests R), the checks that need no secret
CheckAuthEnter(p, R) ==
  /\ pc[p] = "ca_rlock"
  /\ RLock(p)
  /\ \E r \in R :
       /\ req' = [req EXCEPT ![p] = r]
       /\ IF HeaderChecks(r)
            THEN /\ pc' = [pc EXCEPT ![p] = "ca_secrets"]
                 /\ ret' = ret
            ELSE /\ pc' = [pc EXCEPT ![p] = "ca_return"]
                 /\ ret' = [ret EXCEPT ![p] = Rejected]
  /\ UNCHANGED <<config, clients, now, keys, entry, accepted, issued, count, written>>

\* CheckAuth, lines 184-201: da.Secrets, the digests, the comparison, ParseUint
CheckAuthCrypto(p) ==
  /\ pc[p] = "ca_secrets"
  /\ IF CryptoChecks(req[p], PlainTextSecrets)
       THEN /\ pc' = [pc EXCEPT ![p] = "ca_lookup"]
            /\ ret' = ret
       ELSE /\ pc' = [pc EXCEPT ![p] = "ca_return"]
            /\ ret' = [ret EXCEPT ![p] = Rejected]
  /\ UNCHANGED <<config, clients, mutex, now, keys, entry, req, accepted, issued, count, written>>

\* the lookup of line 203 with its ok dropped
LookupIgnoringOk(c, n) ==
  [ok |-> TRUE, nc |-> IF n \in DOMAIN c THEN c[n].nc ELSE 0]

\* line 203: client, ok := da.clients[nonce]; the counter of a missing client
\* is never read
Lookup(c, n) ==
  IF n \in DOMAIN c THEN [ok |-> TRUE, nc |-> c[n].nc] ELSE [ok |-> FALSE, nc |-> 0]

\* CheckAuth, lines 203-208: the nonce's session, the replay check
CheckAuthLookup(p) ==
  /\ pc[p] = "ca_lookup"
  /\ LET n  == req[p].nonce
         nc == ParseUint(req[p].nc).val
         client == Lookup(clients, n)
     IN IF client.ok /\ ~Replayed(client.nc, nc, IgnoreNonceCount)
          THEN /\ pc' = [pc EXCEPT ![p] = "ca_set_nc"]
               /\ ret' = ret
               /\ accepted' = [accepted EXCEPT ![n] = nc]
          ELSE /\ pc' = [pc EXCEPT ![p] = "ca_return"]
               /\ ret' = [ret EXCEPT ![p] = Rejected]
               /\ accepted' = accepted
  /\ UNCHANGED <<config, clients, mutex, now, keys, entry, req, issued, count, written>>

\* CheckAuth, line 209: client.nc = nc
CheckAuthSetNc(p) ==
  /\ pc[p] = "ca_set_nc"
  /\ clients' = [clients EXCEPT ![req[p].nonce].nc = ParseUint(req[p].nc).val]
  /\ written' = [written EXCEPT ![p] = @ \/ clients' # clients]
  /\ pc' = [pc EXCEPT ![p] = "ca_set_seen"]
  /\ UNCHANGED <<config, mutex, now, keys, entry, req, ret, accepted, issued, count>>

\* CheckAuth, lines 210-217: client.last_seen = time.Now(), the return values
CheckAuthSetSeen(p) ==
  /\ pc[p] = "ca_set_seen"
  /\ \E t \in Clock :
       /\ now' = t
       /\ clients' = [clients EXCEPT ![req[p].nonce].last_seen = t]
  /\ ret' = [ret EXCEPT ![p] = [username |-> req[p].username,
                                authinfo |-> AuthInfo(req[p], PlainTextSecrets)]]
  /\ written' = [written EXCEPT ![p] = @ \/ clients' # clients]
  /\ pc' = [pc EXCEPT ![p] = "ca_return"]
  /\ UNCHANGED <<config, mutex, keys, entry, req, accepted, issued, count>>

\* Wrap, lines 240-248: where the handler goes with what CheckAuth returned
WrapDispatch(username) == IF username = "" THEN "ra_rlock" ELSE "wrapped"

\* NewContext, lines 269-272: where NewContext goes with what CheckAuth returned
NewContextDispatch(username) == IF username # "" THEN "nc_unlock" ELSE "nc_size"

\* CheckAuth returns: the deferred RUnlock of line 135, then the caller goes on
CheckAuthReturn(p) ==
  /\ pc[p] = "ca_return"
  /\ RUnlock(p)
  /\ pc' = [pc EXCEPT ![p] =
              CASE entry[p] = "Wrap"       -> WrapDispatch(ret[p].username)
                [] entry[p] = "NewContext" -> NewContextDispatch(ret[p].username)
                [] OTHER                   -> "idle"]
  /\ entry' = [entry EXCEPT ![p] = IF entry[p] = "CheckAuth" THEN "none" ELSE @]
  /\ req' = [req EXCEPT ![p] = NoReq]
  /\ ret' = [ret EXCEPT ![p] = NoRet]
  /\ written' = [written EXCEPT ![p] = FALSE]
  /\ UNCHANGED <<config, clients, now, keys, accepted, issued, count>>

\* Wrap, line 247: the wrapped handler runs and returns
Wrapped(p) ==
  /\ pc[p] = "wrapped"
  /\ pc' = [pc EXCEPT ![p] = "idle"]
  /\ entry' = [entry EXCEPT ![p] = "none"]
  /\ UNCHANGED <<config, clients, mutex, now, keys, req, ret, accepted, issued, count, written>>

\* digest_cache.Less, lines 56-58, on two entries of da.clients
Less(ci, cj) == ci.last_seen < cj.last_seen

\* Purge, lines 73-79: the nonces of cache[:num] for some order sort.Sort may
\* leave the entries in.  The map is ranged over in any order and the sort is
\* not stable, so entries with equal last_seen end in any order.
Oldest(c, num) ==
  {D \in SUBSET DOMAIN c :
     /\ Cardinality(D) = num
     /\ \A d \in D, k \in DOMAIN c \ D : ~Less(c[k], c[d])}

\* the map without the nonces D
Without(f, D) == [n \in DOMAIN f \ D |-> f[n]]

\* the map with one more nonce
With(f, n, v) == [m \in DOMAIN f \cup {n} |-> IF m = n THEN v ELSE f[m]]

\* RequireAuth, line 93: the count Purge is called with
PurgeCount(tolerance) == tolerance * 2

\* RequireAuth, line 91: too many tracked nonces
Overfull(size, cacheSize, tolerance) == size > cacheSize + tolerance

\* RequireAuth, line 90
RequireAuthRLock(p) ==
  /\ pc[p] = "ra_rlock"
  /\ RLock(p)
  /\ pc' = [pc EXCEPT ![p] = "ra_size"]
  /\ UNCHANGED <<config, clients, now, keys, entry, req, ret, accepted, issued, count, written>>

\* RequireAuth, lines 91-96: the size check, RUnlock on either branch
RequireAuthSize(p) ==
  /\ pc[p] = "ra_size"
  /\ RUnlock(p)
  /\ IF Overfull(Size, ClientCacheSize, ClientCacheTolerance)
       THEN /\ pc' = [pc EXCEPT ![p] = "pg_lock"]
            /\ count' = [count EXCEPT ![p] = PurgeCount(ClientCacheTolerance)]
       ELSE /\ pc' = [pc EXCEPT ![p] = "ra_lock"]
            /\ count' = count
  /\ UNCHANGED <<config, clients, now, keys, entry, req, ret, accepted, issued, written>>

\* Purge, line 72: Lock, until the readers have left
PurgeLock(p) ==
  /\ pc[p] = "pg_lock"
  /\ LockAnnounce(p)
  /\ pc' = [pc EXCEPT ![p] = "pg_wait"]
  /\ UNCHANGED <<config, clients, now, keys, entry, req, ret, accepted, issued, count, written>>

PurgeAcquire(p) ==
  /\ pc[p] = "pg_wait"
  /\ LockAcquire(p)
  /\ pc' = [pc EXCEPT ![p] = "pg_body"]
  /\ UNCHANGED <<config, clients, now, keys, entry, req, ret, accepted, issued, count, written>>

\* where the caller of Purge goes on when Purge returns
PurgeReturn(e) ==
  CASE e = "Purge"      -> "idle"
    [] e = "NewContext" -> "nc_insert"
    [] OTHER            -> "ra_lock"

\* Purge, lines 73-82.  cache[:count] with count < 0 or count > len(cache)
\* panics: the goroutine leaves Purge with the mutex still locked.
PurgeBody(p) ==
  /\ pc[p] = "pg_body"
  /\ IF count[p] < 0 \/ count[p] > Size
       THEN /\ pc' = [pc EXCEPT ![p] = "panicked"]
            /\ UNCHANGED <<clients, mutex, accepted, entry, count>>
       ELSE /\ \E D \in Oldest(clients, count[p]) :
                 /\ clients' = Without(clients, D)
                 /\ accepted' = Without(accepted, D)
            /\ Unlock(p)
            /\ pc' = [pc EXCEPT ![p] = PurgeReturn(entry[p])]
            /\ entry' = [entry EXCEPT ![p] = IF entry[p] = "Purge" THEN "none" ELSE @]
            /\ count' = [count EXCEPT ![p] = 0]
  /\ UNCHANGED <<config, now, keys, req, ret, issued, written>>

\* RequireAuth, lines 97-99: RandomKey, Lock
RequireAuthLock(p) ==
  /\ pc[p] = "ra_lock"
  /\ LockAnnounce(p)
  /\ pc' = [pc EXCEPT ![p] = "ra_wait"]
  /\ UNCHANGED <<config, clients, now, keys, entry, req, ret, accepted, issued, count, written>>

RequireAuthAcquire(p) ==
  /\ pc[p] = "ra_wait"
  /\ LockAcquire(p)
  /\ pc' = [pc EXCEPT ![p] = "ra_insert"]
  /\ UNCHANGED <<config, clients, now, keys, entry, req, ret, accepted, issued, count, written>>

\* RandomKey(): a nonce no earlier call returned
RandomKey == keys + 1

\* RequireAuth, line 100: the session of a new nonce
NewClient(t) == [nc |-> 0, last_seen |-> t]

\* RequireAuth, lines 100-101: register the nonce, Unlock
RequireAuthInsert(p) ==
  /\ pc[p] = "ra_insert"
  /\ keys' = RandomKey
  /\ \E t \in Clock :
       /\ now' = t
       /\ clients' = With(clients, RandomKey, NewClient(t))
  /\ accepted' = With(accepted, RandomKey, -1)
  /\ issued' = [issued EXCEPT ![p] = @ \cup {RandomKey}]
  /\ Unlock(p)
  /\ pc' = [pc EXCEPT ![p] = "ra_rlock2"]
  /\ UNCHANGED <<config, entry, req, ret, count, written>>

\* RequireAuth, line 103
RequireAuthRLock2(p) ==
  /\ pc[p] = "ra_rlock2"
  /\ RLock(p)
  /\ pc' = [pc EXCEPT ![p] = "ra_respond"]
  /\ UNCHANGED <<config, clients, now, keys, entry, req, ret, accepted, issued, count, written>>

\* RequireAuth, lines 104-110: the 401 response, RUnlock, return
RequireAuthRespond(p) ==
  /\ pc[p] = "ra_respond"
  /\ RUnlock(p)
  /\ pc' = [pc EXCEPT ![p] = "idle"]
  /\ entry' = [entry EXCEPT ![p] = "none"]
  /\ issued' = [issued EXCEPT ![p] = {}]
  /\ UNCHANGED <<config, clients, now, keys, req, ret, accepted, count, written>>

\* NewContext, lines 266-283, around its call of CheckAuth and of Purge:
\* Lock (266); after CheckAuth the size check (274); RandomKey and the new
\* session (277-278); Unlock and return (283-284)
NewContext(p) ==
  /\ pc[p] \in {"nc_lock", "nc_wait", "nc_size", "nc_insert", "nc_unlock"}
  /\ CASE pc[p] = "nc_lock" ->
            /\ LockAnnounce(p)
            /\ pc' = [pc EXCEPT ![p] = "nc_wait"]
            /\ UNCHANGED <<clients, now, keys, entry, count, accepted, issued>>
       [] pc[p] = "nc_wait" ->
            /\ LockAcquire(p)
            /\ pc' = [pc EXCEPT ![p] = "ca_rlock"]
            /\ UNCHANGED <<clients, now, keys, entry, count, accepted, issued>>
       [] pc[p] = "nc_size" ->
            /\ IF Overfull(Size, ClientCacheSize, ClientCacheTolerance)
                 THEN /\ pc' = [pc EXCEPT ![p] = "pg_lock"]
                      /\ count' = [count EXCEPT ![p] = PurgeCount(ClientCacheTolerance)]
                 ELSE /\ pc' = [pc EXCEPT ![p] = "nc_insert"]
                      /\ count' = count
            /\ UNCHANGED <<clients, mutex, now, keys, entry, accepted, issued>>
       [] pc[p] = "nc_insert" ->
            /\ keys' = RandomKey
            /\ \E t \in Clock :
                 /\ now' = t
                 /\ clients' = With(clients, RandomKey, NewClient(t))
            /\ accepted' = With(accepted, RandomKey, -1)
            /\ issued' = [issued EXCEPT ![p] = @ \cup {RandomKey}]
            /\ pc' = [pc EXCEPT ![p] = "nc_unlock"]
            /\ UNCHANGED <<mutex, entry, count>>
       [] pc[p] = "nc_unlock" ->
            /\ Unlock(p)
            /\ pc' = [pc EXCEPT ![p] = "idle"]
            /\ entry' = [entry EXCEPT ![p] = "none"]
            /\ issued' = [issued EXCEPT ![p] = {}]
            /\ UNCHANGED <<clients, now, keys, count, accepted>>
  /\ UNCHANGED <<config, req, ret, written>>

\* a step of a call in flight
Step(p, R) ==
  \/ CheckAuthEnter(p, R)
  \/ CheckAuthCrypto(p)
  \/ CheckAuthLookup(p)
  \/ CheckAuthSetNc(p)
  \/ CheckAuthSetSeen(p)
  \/ CheckAuthReturn(p)
  \/ Wrapped(p)
  \/ RequireAuthRLock(p)
  \/ RequireAuthSize(p)
  \/ PurgeLock(p)
  \/ PurgeAcquire(p)
  \/ PurgeBody(p)
  \/ RequireAuthLock(p)
  \/ RequireAuthAcquire(p)
  \/ RequireAuthInsert(p)
  \/ RequireAuthRLock2(p)
  \/ RequireAuthRespond(p)
  \/ NewContext(p)

\* the goroutines of the HTTP server serve requests concurrently
Next ==
  \E p \in Procs :
    \/ Call(p, Handlers)
    \/ CheckAuthEnter(p, RacingRequests(PlainTextSecrets))
    \/ CheckAuthCrypto(p)
    \/ CheckAuthLookup(p)
    \/ CheckAuthSetNc(p)
    \/ CheckAuthSetSeen(p)
    \/ CheckAuthReturn(p)
    \/ Wrapped(p)
    \/ RequireAuthRLock(p)
    \/ RequireAuthSize(p)
    \/ PurgeLock(p)
    \/ PurgeAcquire(p)
    \/ PurgeBody(p)
    \/ RequireAuthLock(p)
    \/ RequireAuthAcquire(p)
    \/ RequireAuthInsert(p)
    \/ RequireAuthRLock2(p)
    \/ RequireAuthRespond(p)

Spec == Init /\ [][Next]_vars

\* one call at a time, of any exported method: the calls of one goroutine
NextSeq ==
  \/ Call(1, Methods)
  \/ CheckAuthEnter(1, Requests(PlainTextSecrets))
  \/ CheckAuthCrypto(1)
  \/ CheckAuthLookup(1)
  \/ CheckAuthSetNc(1)
  \/ CheckAuthSetSeen(1)
  \/ CheckAuthReturn(1)
  \/ Wrapped(1)
  \/ RequireAuthRLock(1)
  \/ RequireAuthSize(1)
  \/ PurgeLock(1)
  \/ PurgeAcquire(1)
  \/ PurgeBody(1)
  \/ RequireAuthLock(1)
  \/ RequireAuthAcquire(1)
  \/ RequireAuthInsert(1)
  \/ RequireAuthRLock2(1)
  \/ RequireAuthRespond(1)
  \/ NewContext(1)

SpecSeq == Init /\ [][NextSeq]_vars

\* ------------------------------------------------------- the claims

\* the value of the nc parameter of p's request
NcOf(p) == ParseUint(req[p].nc).val

\* p's step passes the session check of lines 203-208: from here CheckAuth
\* writes the session and returns auth["username"] and the Authentication-Info
Accepts(p) == pc[p] = "ca_lookup" /\ pc'[p] = "ca_set_nc"

\* p's step fails the session check of lines 203-208
Rejects(p) == pc[p] = "ca_lookup" /\ pc'[p] = "ca_return" /\ ret'[p] = Rejected

\* CheckAuth is past the session check with p's request and has not returned
\* "", nil
Accepting(p) ==
  \/ pc[p] \in {"ca_set_nc", "ca_set_seen"}
  \/ pc[p] = "ca_return" /\ ret[p].authinfo # Nil

\* binding the request's own parameters, the response is the one RFC 2617
\* defines for the user's secret
ValidResponse(r) == r.response = KD(r, PlainTextSecrets)

\* a request as the challenge asks for it, from a client that knows the secret
WellFormed(r) ==
  /\ r.scheme = "Digest" /\ r.opaque = Opaque /\ r.qop = "auth"
  /\ r.algorithm = "MD5" /\ r.uri = r.RequestURI
  /\ ValidResponse(r)
  /\ r.nc # <<>> /\ \A i \in 1..Len(r.nc) : r.nc[i] # BadDigit

\* C1: with replay protection, the nc values CheckAuth accepts for a nonce are
\* strictly increasing: a response is accepted only with an nc larger than the
\* nc accepted last for its nonce, the first nc 0 included.
C1_AcceptedNcStrictlyIncreasing ==
  [][\A p \in Procs :
       (Accepts(p) /\ ~IgnoreNonceCount) => accepted[req[p].nonce] < NcOf(p)]_vars

\* C2: one call at a time, on a nonce in the cache: nc = 1, 2, 3 sent in that
\* order are accepted each time; nc = 2 sent after 3 was accepted is rejected
\* with replay protection and accepted without it.
C2_CountersInOrder ==
  [][\A p \in Procs :
       (pc[p] = "ca_lookup" /\ pc'[p] # "ca_lookup" /\ req[p].nonce \in DOMAIN clients) =>
          LET last == accepted[req[p].nonce] IN
            /\ (NcOf(p) \in {1, 2, 3} /\ last \in {-1, NcOf(p) - 1}) => Accepts(p)
            /\ (NcOf(p) = 2 /\ last = 3 /\ ~IgnoreNonceCount) => Rejects(p)
            /\ (NcOf(p) = 2 /\ last = 3 /\ IgnoreNonceCount) => Accepts(p)]_vars

\* nc = 2 was sent after 3 was accepted, and is rejected
C2_ResubmittedAfterThree ==
  \E p \in Procs :
    /\ pc[p] = "ca_return" /\ ret[p] = Rejected /\ ~IgnoreNonceCount
    /\ WellFormed(req[p]) /\ req[p].nc = <<2>>
    /\ req[p].nonce \in DOMAIN clients
    /\ accepted[req[p].nonce] = 3 /\ clients[req[p].nonce].nc = 3

\* C3: with replay protection, of two concurrent calls with the same nonce and
\* the same nc, at most one is accepted.
C3_AtMostOneOfTwoAccepted ==
  ~IgnoreNonceCount =>
    \A p, q \in Procs :
      (p # q /\ Accepting(p) /\ Accepting(q)) =>
         ~(req[p].nonce = req[q].nonce /\ req[p].nc = req[q].nc)

\* C4: a call whose response is not the digest the server computes leaves the
\* cache as it was, from its first step to its return.
C4_ForgedLeavesCache ==
  [][\A p \in Procs :
       (/\ pc'[p] # pc[p]
        /\ \/ pc[p] = "ca_rlock" /\ ~ValidResponse(req'[p])
           \/ pc[p] \in {"ca_secrets", "ca_lookup", "ca_set_nc", "ca_set_seen", "ca_return"}
              /\ ~ValidResponse(req[p]))
       => /\ clients' = clients
          /\ pc'[p] \in {"ca_secrets", "ca_return", "idle", "ra_rlock"}
          /\ pc'[p] = "ca_return" => ret'[p] = Rejected]_vars

\* a forged response that names a cached nonce and an nc above its counter has
\* been rejected
C4_ForgedRejected ==
  \E p \in Procs :
    /\ pc[p] = "ca_return" /\ ret[p] = Rejected
    /\ ~ValidResponse(req[p]) /\ HeaderChecks(req[p])
    /\ req[p].nonce \in DOMAIN clients
    /\ ~ParseUint(req[p].nc).err /\ NcOf(p) > clients[req[p].nonce].nc

\* C5: CheckAuth accepts no response whose nonce is not in the cache.
C5_UnknownNonceRejected ==
  \A p \in Procs :
    (pc[p] \in {"ca_set_nc", "ca_set_seen", "ca_return"} /\ req[p].nonce \notin DOMAIN clients)
       => pc[p] = "ca_return" /\ ret[p] = Rejected

\* a well-formed response to a nonce that was issued and purged has been
\* rejected
C5_PurgedNonceRejected ==
  \E p \in Procs :
    /\ pc[p] = "ca_return" /\ ret[p] = Rejected
    /\ WellFormed(req[p]) /\ req[p].username = "alice"
    /\ req[p].nonce <= keys /\ req[p].nonce \notin DOMAIN clients

\* C6: a well-formed response to a nonce in the cache, with an nc above the
\* nonce's counter, passes every check; CheckAuth then stores that nc as the
\* nonce's counter and returns the user name and an Authentication-Info.
C6_WellFormedAccepted ==
  [][\A p \in Procs :
       /\ (pc[p] = "ca_rlock" /\ pc'[p] # "ca_rlock" /\ WellFormed(req'[p]))
             => pc'[p] = "ca_secrets"
       /\ (pc[p] = "ca_secrets" /\ pc'[p] # "ca_secrets" /\ WellFormed(req[p]))
             => pc'[p] = "ca_lookup"
       /\ (pc[p] = "ca_lookup" /\ pc'[p] # "ca_lookup" /\ req[p].nonce \in DOMAIN clients
             /\ NcOf(p) > clients[req[p].nonce].nc)
             => Accepts(p)
       /\ (pc[p] = "ca_set_nc" /\ pc'[p] # "ca_set_nc")
             => /\ pc'[p] = "ca_set_seen"
                /\ clients'[req[p].nonce].nc = NcOf(p)
       /\ (pc[p] = "ca_set_seen" /\ pc'[p] # "ca_set_seen")
             => /\ pc'[p] = "ca_return"
                /\ clients'[req[p].nonce].nc = NcOf(p)
                /\ ret'[p].username = req[p].username /\ ret'[p].authinfo # Nil]_vars

\* CheckAuth returns alice and an Authentication-Info for nc = 2, and 2 is the
\* counter of the nonce
C6_CounterAdvanced ==
  \E p \in Procs :
    /\ pc[p] = "ca_return" /\ ret[p].username = "alice" /\ ret[p].authinfo # Nil
    /\ WellFormed(req[p]) /\ req[p].nc = <<2>>
    /\ clients[req[p].nonce].nc = 2

\* C7: one call at a time, from an empty cache: after ClientCacheSize +
\* ClientCacheTolerance + 1 challenges and no verification, the Purge of the
\* next RequireAuth leaves at most ClientCacheSize + ClientCacheTolerance -
\* 2*ClientCacheTolerance + 1 entries, and no entry it removes was seen later
\* than one it keeps.
C7_PurgeAfterOverflow ==
  [][\A p \in Procs :
       (/\ pc[p] = "pg_body" /\ pc'[p] # "pg_body"
        /\ entry[p] \in {"RequireAuth", "Wrap"}
        /\ keys = ClientCacheSize + ClientCacheTolerance + 1
        /\ DOMAIN clients = 1..keys
        /\ \A n \in DOMAIN clients : clients[n].nc = 0 /\ accepted[n] = -1)
       => /\ Cardinality(DOMAIN clients') <=
               ClientCacheSize + ClientCacheTolerance - 2 * ClientCacheTolerance + 1
          /\ DOMAIN clients' \subseteq DOMAIN clients
          /\ \A d \in DOMAIN clients \ DOMAIN clients', k \in DOMAIN clients' :
               clients[d].last_seen <= clients[k].last_seen]_vars

\* where a call waits for the mutex
LockWaits == {"ca_rlock", "ra_rlock", "pg_lock", "pg_wait", "ra_lock", "ra_wait",
              "ra_rlock2"}

\* C8: concurrent RequireAuth and CheckAuth calls never deadlock: while a call
\* waits for the mutex, some call in flight can take a step.
C8_NoDeadlock ==
  (\E p \in Procs : pc[p] \in LockWaits) =>
     ENABLED (\E q \in Procs : Step(q, RacingRequests(PlainTextSecrets)))

\* opaque is not the configured Opaque, or qop is not "auth"
BadOpaqueOrQop(r) == r.opaque # Opaque \/ r.qop # "auth"

\* C9: a request with another opaque than the configured one, or a qop that is
\* not "auth", is rejected whatever else it holds, and its call leaves the
\* cache as it was.
C9_OpaqueQopGate ==
  [][\A p \in Procs :
       (/\ pc'[p] # pc[p]
        /\ \/ pc[p] = "ca_rlock" /\ BadOpaqueOrQop(req'[p])
           \/ pc[p] \in {"ca_secrets", "ca_lookup", "ca_set_nc", "ca_set_seen", "ca_return"}
              /\ BadOpaqueOrQop(req[p]))
       => /\ clients' = clients
          /\ pc'[p] \in {"ca_return", "idle", "ra_rlock"}
          /\ pc'[p] = "ca_return" => ret'[p] = Rejected]_vars

\* a request with a wrong opaque or qop, and with a valid response for a cached
\* nonce and an nc above its counter, has been rejected
C9_OtherwiseCorrectRejected ==
  \E p \in Procs :
    /\ pc[p] = "ca_return" /\ ret[p] = Rejected
    /\ BadOpaqueOrQop(req[p]) /\ ValidResponse(req[p])
    /\ req[p].scheme = "Digest" /\ req[p].uri = req[p].RequestURI
    /\ req[p].nonce \in DOMAIN clients
    /\ ~ParseUint(req[p].nc).err /\ NcOf(p) > clients[req[p].nonce].nc

\* where a call is inside RequireAuth, the Purge it calls included
InRequireAuth == {"ra_rlock", "ra_size", "pg_lock", "pg_wait", "pg_body",
                  "ra_lock", "ra_wait", "ra_insert", "ra_rlock2", "ra_respond"}

\* C10: in the handler of Wrap, the wrapped handler is invoked exactly when
\* CheckAuth returned a user name; when it returned none, RequireAuth runs and
\* ends having registered exactly one new nonce, with counter 0.
C10_GateDispatch ==
  [][\A p \in Procs :
       entry[p] = "Wrap" =>
         /\ (pc[p] = "ca_return" /\ pc'[p] # "ca_return")
               => /\ (pc'[p] = "wrapped") <=> (ret[p].username # "")
                  /\ (pc'[p] = "ra_rlock") <=> (ret[p].username = "")
         /\ (pc'[p] = "wrapped" /\ pc[p] # "wrapped") => pc[p] = "ca_return"
         /\ (pc[p] = "ra_insert" /\ pc'[p] # "ra_insert")
               => \E n \in DOMAIN clients' \ DOMAIN clients :
                    /\ DOMAIN clients' = DOMAIN clients \cup {n}
                    /\ clients'[n].nc = 0
                    /\ \A m \in DOMAIN clients : clients'[m] = clients[m]
         /\ (pc[p] \in InRequireAuth /\ pc'[p] \notin InRequireAuth)
               => pc'[p] = "idle" /\ Cardinality(issued[p]) = 1]_vars

\* what CheckAuth reads before the uri is as the challenge asks, and the
\* request has a URL
OtherFieldsCorrect(r) ==
  /\ r.scheme = "Digest" /\ r.opaque = Opaque /\ r.qop = "auth"
  /\ r.algorithm \in {"MD5", "md5", Absent}
  /\ ~r.URLnil

\* the uri parameter parses as a URL whose path is a prefix of the request's path
PathIsPrefix(r) ==
  /\ ~UrlParse(r.uri).err
  /\ \E k \in 0..Len(r.Path) : SubSeq(r.Path, 1, k) = UrlParse(r.uri).Path

\* C11: with every other field correct, a request whose uri parameter is the
\* request URI passes the uri check; one whose uri parameter differs from the
\* request URI passes it exactly when the parameter parses as a URL whose path
\* is a prefix of the request's path, and is then accepted like any other
\* request: on a valid response, a cached nonce and an nc above its counter.
C11_UriPrefixRule ==
  [][\A p \in Procs :
       /\ (pc[p] = "ca_rlock" /\ pc'[p] # "ca_rlock" /\ OtherFieldsCorrect(req'[p]))
             => /\ req'[p].uri = req'[p].RequestURI => pc'[p] = "ca_secrets"
                /\ req'[p].uri # req'[p].RequestURI
                      => /\ (pc'[p] = "ca_secrets") <=> PathIsPrefix(req'[p])
                         /\ (pc'[p] = "ca_return" /\ ret'[p] = Rejected)
                               <=> ~PathIsPrefix(req'[p])
       /\ (pc[p] = "ca_secrets" /\ pc'[p] # "ca_secrets"
             /\ req[p].uri # req[p].RequestURI
             /\ ValidResponse(req[p]) /\ ~ParseUint(req[p].nc).err)
             => pc'[p] = "ca_lookup"
       /\ (pc[p] = "ca_lookup" /\ pc'[p] # "ca_lookup"
             /\ req[p].uri # req[p].RequestURI
             /\ req[p].nonce \in DOMAIN clients /\ NcOf(p) > clients[req[p].nonce].nc)
             => Accepts(p)]_vars

\* a request for /a/b with the uri parameter /a has been accepted
C11_PrefixUriAccepted ==
  \E p \in Procs :
    /\ pc[p] = "ca_return" /\ ret[p].username = "alice" /\ ret[p].authinfo # Nil
    /\ req[p].uri = <<"/", "a">> /\ req[p].RequestURI = Target /\ req[p].Path = Target

\* a request for /a/b with the uri parameter /b, all else correct, has been
\* rejected
C11_OtherUriRejected ==
  \E p \in Procs :
    /\ pc[p] = "ca_return" /\ ret[p] = Rejected
    /\ OtherFieldsCorrect(req[p]) /\ ValidResponse(req[p])
    /\ req[p].uri = <<"/", "b">> /\ req[p].RequestURI = Target
    /\ req[p].nonce \in DOMAIN clients

\* C12: with replay protection, no step lowers the counter of a nonce in the
\* cache, whatever the interleaving of the calls.
C12_CounterNonDecreasing ==
  [][~IgnoreNonceCount =>
       \A n \in DOMAIN clients \cap DOMAIN clients' :
          clients'[n].nc >= clients[n].nc]_vars

\* C13: a step that changes da.clients (a nonce inserted or deleted, a
\* session's counter or last_seen written) is a step of a caller that holds
\* da.mutex locked for writing.
C13_WritesUnderExclusiveLock ==
  [][clients' # clients =>
       \E p \in Procs : pc'[p] # pc[p] /\ mutex.w = p /\ mutex.held]_vars

\* C14: while CheckAuth calls da.Secrets, its caller holds da.mutex neither
\* for reading nor for writing.
C14_SecretsOutsideLock ==
  \A p \in Procs :
    pc[p] = "ca_secrets" => p \notin mutex.readers /\ mutex.w # p

\* C15: Purge(count) with count >= 0, from the moment it has the lock: it holds da.mutex
\* locked for writing, removes exactly count nonces, none of them seen later
\* than a nonce it keeps, leaves the sessions it keeps as they were, and
\* returns with the mutex released.
C15_PurgeRemovesCountOldest ==
  [][\A p \in Procs :
       (pc[p] = "pg_body" /\ pc'[p] # "pg_body" /\ count[p] >= 0)
       => /\ mutex.w = p /\ mutex.held
          /\ DOMAIN clients' \subseteq DOMAIN clients
          /\ Cardinality(DOMAIN clients \ DOMAIN clients') = count[p]
          /\ \A d \in DOMAIN clients \ DOMAIN clients', k \in DOMAIN clients' :
               clients[d].last_seen <= clients[k].last_seen
          /\ \A k \in DOMAIN clients' : clients'[k] = clients[k]
          /\ pc'[p] = PurgeReturn(entry[p])
          /\ mutex'.w = None /\ ~mutex'.held]_vars

\* C16: issuing a challenge never faults: whenever RequireAuth has called
\* Purge, the count it passed is at most the number of nonces in the cache,
\* and no RequireAuth call ends in a panic.
C16_IssuanceNeverFaults ==
  \A p \in Procs :
    entry[p] \in {"RequireAuth", "Wrap"} =>
      /\ pc[p] = "pg_body" => count[p] <= Size
      /\ pc[p] # "panicked"

\* C17: one call at a time, the cache never holds more than ClientCacheSize +
\* ClientCacheTolerance + 1 nonces.
C17_BoundedCache == Size <= ClientCacheSize + ClientCacheTolerance + 1

\* C18: a CheckAuth call that returns the empty user name, which the handler
\* of Wrap takes for a rejection, has changed no session and no nonce of the
\* cache.
C18_RejectionLeavesSessions ==
  \A p \in Procs :
    (pc[p] = "ca_return" /\ ret[p].username = "") => ~written[p]

\* C19: a NewContext call with no other call in flight is never blocked: until
\* it has returned it can take its next step.
C19_NewContextTerminates ==
  \A p \in Procs :
    (entry[p] = "NewContext" /\ pc[p] # "idle")
       => ENABLED Step(p, Requests(PlainTextSecrets))

====
